---- MODULE Spec2Model ----
(***************************************************************************)
(* dojango.forms: the Field Mapper (models.py, formfield_function over     *)
(* MODEL_TO_FORM_FIELD_MAP) and the Attribute Mixer (widgets.py,           *)
(* DojoWidgetMixin.build_attrs and DojoWidgetMixin._mixin_attr).           *)
(***************************************************************************)
EXTENDS Integers, Sequences, FiniteSets

VARIABLES
    default_field_attr_map, \* DojoWidgetMixin.default_field_attr_map (one dict, shared by all classes)
    widget_attrs,           \* self.attrs of every widget instance
    required_modules,       \* the dojo_collector registry
    last,                   \* the last build_attrs call and what it returned
    mx_attrs,               \* the attrs dictionary handed from one _mixin_attr call to the next
    mx_last,                \* the last direct _mixin_attr call
    ff,                     \* the last formfield_function call and the field.formfield call it made
    built,                  \* the last entry-point call and the form field built for a model field
    row                     \* the last form row handed to add_fields, before and after

vars == <<default_field_attr_map, widget_attrs, required_modules, last, mx_attrs,
          mx_last, ff, built, row>>

mixer_vars == <<default_field_attr_map, widget_attrs, required_modules, last>>
mixin_vars == <<mx_attrs, mx_last>>
mapper_vars == <<ff>>
forms_vars == <<built, row>>

-----------------------------------------------------------------------------
(* Python values.  A str is the sequence of its pieces; a dict is a        *)
(* function from its keys to values.                                       *)

None == [kind |-> "none"]
PyBool(b) == [kind |-> "bool", b |-> b]
PyInt(n) == [kind |-> "int", n |-> n]
PyStr(s) == [kind |-> "str", s |-> s]
PyDict(f) == [kind |-> "dict", d |-> f]
PyDate(d) == [kind |-> "date", date |-> d]
PyTime(t) == [kind |-> "time", time |-> t]
PyDateTime(d, t) == [kind |-> "datetime", date |-> d, time |-> t]

\* an exception propagating out of a call
Raised == [kind |-> "exception"]

EmptyMap == [k \in {} |-> None]

\* the mapping with the one key k
Item(k, x) == [j \in {k} |-> x]
\* the mapping of f and g together, f's entry taken where both have one
Merge(f, g) ==
    [k \in (DOMAIN f) \cup (DOMAIN g) |-> IF k \in DOMAIN f THEN f[k] ELSE g[k]]
\* the mapping written as a set of <<key, value>> pairs
MapOf(pairs) ==
    [k \in {p[1] : p \in pairs} |-> (CHOOSE p \in pairs : p[1] = k)[2]]
EmptyDict == PyDict(EmptyMap)
\* the dict literals {k: x}, {k: x, l: y} and {k: x, l: y, m: z}
Dict1(k, x) == PyDict(Item(k, x))
Dict2(k, x, l, y) == PyDict(MapOf({<<k, x>>, <<l, y>>}))
Dict3(k, x, l, y, m, z) == PyDict(MapOf({<<k, x>>, <<l, y>>, <<m, z>>}))

IsDict(v) == v.kind = "dict"
HasKey(v, k) == k \in DOMAIN v.d
\* dict.get(k, None)
Get(v, k) == IF k \in DOMAIN v.d THEN v.d[k] ELSE None
\* d[k] = x
Put(v, k, x) == PyDict(Merge(Item(k, x), v.d))
\* d.update(e)
Update(v, e) == PyDict(Merge(e.d, v.d))
\* del d[k]
Del(v, k) == PyDict([x \in (DOMAIN v.d) \ {k} |-> v.d[x]])

\* a Python 2 time is false at midnight; dates and datetimes are always true
Truthy(v) ==
    CASE v.kind = "none" -> FALSE
      [] v.kind = "bool" -> v.b
      [] v.kind = "int" -> v.n # 0
      [] v.kind = "str" -> v.s # <<>>
      [] v.kind = "dict" -> DOMAIN v.d # {}
      [] v.kind = "time" -> ~(v.time.hms = "00:00:00" /\ v.time.us = "")
      [] OTHER -> TRUE

-----------------------------------------------------------------------------
(* str(), strftime() and str.replace() on the date and time values.        *)

\* time.isoformat(): HH:MM:SS, and .ffffff when the microseconds are not 0
TimeIso(t) == IF t.us = "" THEN <<t.hms>> ELSE <<t.hms, ".", t.us>>

\* str(value)
PyStrOf(v) ==
    CASE v.kind = "str" -> v
      [] v.kind = "datetime" -> PyStr(<<v.date, " ">> \o TimeIso(v.time))
      [] v.kind = "date" -> PyStr(<<v.date>>)
      [] v.kind = "time" -> PyStr(TimeIso(v.time))
      [] OTHER -> v

\* value.strftime('T%H:%M:%S'); only dates and times have strftime
StrftimeTime(v) ==
    IF v.kind = "datetime" THEN PyStr(<<"T", v.time.hms>>) ELSE Raised

\* value.strftime('%Y-%m-%d')
StrftimeDate(v) ==
    IF v.kind = "datetime" THEN PyStr(<<v.date>>) ELSE Raised

\* s.replace(' ', 'T')
ReplaceSpace(v) ==
    PyStr([i \in 1..Len(v.s) |-> IF v.s[i] = " " THEN "T" ELSE v.s[i]])

\* key.split("."): a key is the sequence of its segments and its dots
RECURSIVE SplitFrom(_, _)
SplitFrom(key, cur) ==
    IF key = <<>> THEN <<cur>>
    ELSE IF Head(key) = "." THEN <<cur>> \o SplitFrom(Tail(key), "")
    ELSE SplitFrom(Tail(key), Head(key))

Split(key) == SplitFrom(key, "")

-----------------------------------------------------------------------------
(* The widget classes of widgets.py.                                       *)

WidgetClasses ==
    {"Input", "TextInput", "Textarea", "DateInput", "TimeInput", "Select",
     "HorizontalSliderInput", "ValidationTextInput", "EmailTextInput",
     "NumberTextInput", "RatingInput", "DateInputAnim"}

\* isinstance(self, DateInput)
IsDateInput(cls) == cls \in {"DateInput", "DateInputAnim"}
\* isinstance(self, TimeInput)
IsTimeInput(cls) == cls = "TimeInput"

\* cls.dojo_type ("" stands for None)
dojo_type(cls) ==
    CASE cls = "Input" -> ""
      [] cls = "TextInput" -> "dijit.form.TextBox"
      [] cls = "Textarea" -> "dijit.form.Textarea"
      [] cls = "DateInput" -> "dijit.form.DateTextBox"
      [] cls = "TimeInput" -> "dijit.form.TimeTextBox"
      [] cls = "Select" -> "dijit.form.FilteringSelect"
      [] cls = "HorizontalSliderInput" -> "dijit.form.HorizontalSlider"
      [] cls = "ValidationTextInput" -> "dijit.form.ValidationTextBox"
      [] cls = "EmailTextInput" -> "dijit.form.ValidationTextBox"
      [] cls = "NumberTextInput" -> "dijit.form.NumberTextBox"
      [] cls = "RatingInput" -> "dojox.form.Rating"
      [] cls = "DateInputAnim" -> "dojox.form.DateTextBox"

\* cls.extra_dojo_require
extra_dojo_require(cls) ==
    IF cls = "EmailTextInput" THEN <<"dojox.validate.regexp">> ELSE <<>>

\* cls.valid_extra_attrs
valid_extra_attrs(cls) ==
    CASE cls \in {"Input", "Textarea"} -> <<>>
      [] cls \in {"TextInput", "HorizontalSliderInput"} -> <<"max_length">>
      [] cls \in {"DateInput", "TimeInput", "DateInputAnim"} ->
            <<"required", "help_text", "min_value", "max_value">>
      [] cls = "Select" -> <<"required", "help_text">>
      [] cls \in {"ValidationTextInput", "EmailTextInput"} ->
            <<"required", "help_text", "js_regex", "max_length">>
      [] cls = "NumberTextInput" ->
            <<"min_value", "max_value", "required", "help_text", "decimal_places">>
      [] cls = "RatingInput" -> <<"max_value">>

\* cls.field_attr_map
field_attr_map(cls) ==
    IF cls = "RatingInput" THEN Item("max_value", <<"numStars">>) ELSE EmptyMap

\* DojoWidgetMixin.default_field_attr_map as the class body defines it
DefaultFieldAttrMap ==
    MapOf({<<"required", <<"required">>>>,
           <<"help_text", <<"promptMessage">>>>,
           <<"min_value", <<"constraints", ".", "min">>>>,
           <<"max_value", <<"constraints", ".", "max">>>>,
           <<"max_length", <<"maxlength">>>>,
           <<"decimal_places", <<"constraints", ".", "places">>>>,
           <<"js_regex", <<"regExp">>>>,
           <<"multiple", <<"multiple">>>>})

-----------------------------------------------------------------------------
(* DojoWidgetMixin._mixin_attr                                             *)

\* the date test made before the datetime test: a datetime is a date too
NormalizeValueDateFirst(cls, value) ==
    IF value.kind \in {"date", "datetime"} THEN PyStrOf(value)
    ELSE IF value.kind = "time" THEN PyStr(<<"T">> \o PyStrOf(value).s)
    ELSE value

\* the value as _mixin_attr stores it
NormalizeValue(cls, value) ==
    LET a == IF value.kind = "datetime" /\ IsTimeInput(cls)
             THEN StrftimeTime(value) ELSE value
        b == IF value.kind = "datetime" /\ IsDateInput(cls)
             THEN StrftimeDate(a) ELSE a
        c == IF value.kind # "datetime" THEN value
             ELSE IF b = Raised THEN Raised
             ELSE ReplaceSpace(PyStrOf(b))
        d == IF c.kind \in {"date", "datetime"} THEN PyStrOf(c) ELSE c
        e == IF d.kind = "time" THEN PyStr(<<"T">> \o PyStrOf(d).s) ELSE d
    IN  e

\* the loop of _mixin_attr from inner_dict on, over the segments left
RECURSIVE MixinInner(_, _, _, _)
MixinInner(cls, inner_dict, dojo_field_attr, value) ==
    IF ~IsDict(inner_dict) THEN Raised
    ELSE LET i == Head(dojo_field_attr) IN
         IF Len(dojo_field_attr) = 1
         THEN IF Get(inner_dict, i) = None
              THEN LET nv == NormalizeValue(cls, value)
                   IN  IF nv = Raised THEN Raised ELSE Put(inner_dict, i, nv)
              ELSE inner_dict
         ELSE LET sub == IF HasKey(inner_dict, i) THEN inner_dict.d[i] ELSE EmptyDict
                  r == MixinInner(cls, sub, Tail(dojo_field_attr), value)
              IN  IF r = Raised THEN Raised ELSE Put(inner_dict, i, r)

\* the loop storing the value whatever the leaf holds
RECURSIVE MixinInnerOverwrite(_, _, _, _)
MixinInnerOverwrite(cls, inner_dict, dojo_field_attr, value) ==
    IF ~IsDict(inner_dict) THEN Raised
    ELSE LET i == Head(dojo_field_attr) IN
         IF Len(dojo_field_attr) = 1
         THEN Put(inner_dict, i, NormalizeValue(cls, value))
         ELSE LET sub == IF HasKey(inner_dict, i) THEN inner_dict.d[i] ELSE EmptyDict
                  r == MixinInnerOverwrite(cls, sub, Tail(dojo_field_attr), value)
              IN  IF r = Raised THEN Raised ELSE Put(inner_dict, i, r)

mixin_attr_overwrite(cls, attrs, key, value) ==
    MixinInnerOverwrite(cls, attrs, Split(key), value)

\* the loop making a new mapping for every segment before the last, whether
\* or not one is there
RECURSIVE MixinInnerFresh(_, _, _, _)
MixinInnerFresh(cls, inner_dict, dojo_field_attr, value) ==
    LET i == Head(dojo_field_attr) IN
    IF Len(dojo_field_attr) = 1
    THEN IF Get(inner_dict, i) = None
         THEN Put(inner_dict, i, NormalizeValue(cls, value))
         ELSE inner_dict
    ELSE Put(inner_dict, i,
             MixinInnerFresh(cls, EmptyDict, Tail(dojo_field_attr), value))

mixin_attr_fresh(cls, attrs, key, value) ==
    IF ~IsDict(attrs) THEN Raised
    ELSE MixinInnerFresh(cls, attrs, Split(key), value)

\* self._mixin_attr(attrs, key, value): the extended attrs, or Raised
mixin_attr(cls, attrs, key, value) == MixinInner(cls, attrs, Split(key), value)

-----------------------------------------------------------------------------
(* The collaborators of build_attrs.                                       *)

\* dojo_collector.add_module(m): append-only, order-preserving, no duplicates
add_module(modules, m) ==
    IF \E k \in 1..Len(modules) : modules[k] = m THEN modules ELSE Append(modules, m)

RECURSIVE add_modules(_, _)
add_modules(modules, ms) ==
    IF ms = <<>> THEN modules
    ELSE add_modules(add_module(modules, Head(ms)), Tail(ms))

\* json_encode of a bool: the client token
json_encode(v) == IF v.b THEN PyStr(<<"true">>) ELSE PyStr(<<"false">>)

-----------------------------------------------------------------------------
(* DojoWidgetMixin.build_attrs                                             *)

\* the loop over self.valid_extra_attrs: the attrs reached, and whether a
\* call raised on the way
RECURSIVE MixinLoop(_, _, _, _, _)
MixinLoop(cls, attrs, extra_field_attrs, map, names) ==
    IF names = <<>> THEN [attrs |-> attrs, raised |-> FALSE]
    ELSE IF ~IsDict(extra_field_attrs) THEN [attrs |-> attrs, raised |-> TRUE]
    ELSE LET i == Head(names)
             field_val == Get(extra_field_attrs, i)
             known == i \in DOMAIN map
         IN  IF field_val # None /\ known
             THEN LET r == mixin_attr(cls, attrs, map[i], field_val)
                  IN  IF r = Raised THEN [attrs |-> attrs, raised |-> TRUE]
                      ELSE MixinLoop(cls, r, extra_field_attrs, map, Tail(names))
             ELSE MixinLoop(cls, attrs, extra_field_attrs, map, Tail(names))

\* the final pass: the bool values of the bag itself are encoded
EncodeBools(attrs) ==
    PyDict([k \in DOMAIN attrs.d |->
              IF attrs.d[k].kind = "bool" THEN json_encode(attrs.d[k]) ELSE attrs.d[k]])

\* self.attrs after the call: dict(self.attrs, **kwargs) copies one level, so
\* a mapping stored in self.attrs is the very object the bag holds under the
\* same key, unless kwargs, extra_attrs or dojoType rebound that key
SharedAttrs(self_attrs, kwargs, extra_attrs, dt, mixed) ==
    PyDict([k \in DOMAIN self_attrs.d |->
              IF /\ IsDict(self_attrs.d[k])
                 /\ k \notin DOMAIN kwargs.d
                 /\ ~(Truthy(extra_attrs) /\ k \in DOMAIN extra_attrs.d)
                 /\ ~(dt # "" /\ k = "dojoType")
              THEN mixed.d[k]
              ELSE self_attrs.d[k]])

\* self.build_attrs(extra_attrs, **kwargs) of a widget of class cls
build_attrs(cls, self_attrs, alt_require, extra_attrs, kwargs, dfam, modules) ==
    LET a0 == Update(self_attrs, kwargs)
        map == Merge(field_attr_map(cls), dfam)
        a1 == IF Truthy(extra_attrs) THEN Update(a0, extra_attrs) ELSE a0
        dt == dojo_type(cls)
        a2 == IF dt # "" THEN Put(a1, "dojoType", PyStr(<<dt>>)) ELSE a1
        m1 == IF alt_require # "" THEN add_module(modules, alt_require)
              ELSE IF dt # "" THEN add_module(modules, dt)
              ELSE modules
        m2 == add_modules(m1, extra_dojo_require(cls))
        extra_field_attrs == IF HasKey(a2, "extra_field_attrs")
                             THEN a2.d["extra_field_attrs"] ELSE PyBool(FALSE)
        loop == IF Truthy(extra_field_attrs)
                THEN MixinLoop(cls, a2, extra_field_attrs, map, valid_extra_attrs(cls))
                ELSE [attrs |-> a2, raised |-> FALSE]
        a3 == IF Truthy(extra_field_attrs)
              THEN Del(loop.attrs, "extra_field_attrs") ELSE loop.attrs
    IN  [raised |-> loop.raised,
         bag |-> IF loop.raised THEN Raised ELSE EncodeBools(a3),
         gathered |-> a2,
         mixed |-> loop.attrs,
         map |-> map,
         modules |-> m2,
         self_attrs |-> SharedAttrs(self_attrs, kwargs, extra_attrs, dt, loop.attrs)]

-----------------------------------------------------------------------------
(* The widgets of a page and the calls made on them.                       *)

\* the largest number a field attribute takes in the calls enumerated
MaxValue == 1

\* the widget instances: class and, for the slider built under a dojo older
\* than 1.3, the alt_require its __init__ sets ("" stands for None)
Widgets ==
    MapOf({<<"number", [cls |-> "NumberTextInput", alt_require |-> ""]>>,
           <<"rating", [cls |-> "RatingInput", alt_require |-> ""]>>,
           <<"slider", [cls |-> "HorizontalSliderInput", alt_require |-> "dijit.form.Slider"]>>,
           <<"email", [cls |-> "EmailTextInput", alt_require |-> ""]>>})


\* the attrs each widget was constructed with
InitialAttrs ==
    MapOf({
      <<"number",
        Dict2("constraints", Dict1("pattern", PyStr(<<"#">>)),
              "extra_field_attrs",
              Dict3("min_value", PyInt(1),
                    "required", PyBool(TRUE),
                    "help_text", PyStr(<<"a number">>)))>>,
      <<"rating",
        Dict1("extra_field_attrs", Dict1("max_value", PyInt(5)))>>,
      <<"slider",
        Dict1("extra_field_attrs", Dict1("max_length", PyInt(10)))>>,
      <<"email",
        Dict2("constraints", Dict1("strict", PyBool(TRUE)),
              "extra_field_attrs",
              Dict3("required", PyBool(FALSE),
                    "max_length", PyInt(30),
                    "multiple", PyBool(TRUE)))>>})

\* the extra_attrs a caller passes
ExtraAttrsChoices ==
    {None,
     Dict1("id", PyStr(<<"id_f">>)),
     Dict1("constraints", PyStr(<<"{min:0}">>)),
     Dict2("maxlength", None, "required", None),
     Dict1("extra_field_attrs", EmptyDict)}
    \cup {Dict1("extra_field_attrs",
                 Dict2("min_value", PyInt(v), "max_value", PyInt(MaxValue)))
            : v \in 0..MaxValue}

\* the keyword arguments a caller passes
KwargsChoices ==
    {EmptyDict,
     Dict2("name", PyStr(<<"f">>), "required", PyBool(FALSE))}

NoCall == [called |-> FALSE]

Init ==
    /\ default_field_attr_map = DefaultFieldAttrMap
    /\ widget_attrs = InitialAttrs
    /\ required_modules = <<>>
    /\ last = NoCall
    /\ mx_attrs = EmptyDict
    /\ mx_last = NoCall
    /\ ff = NoCall
    /\ built = NoCall
    /\ row = NoCall

\* what widget w's build_attrs(extra_attrs, **kwargs) does in the current state
BuildAttrsNow(w, extra_attrs, kwargs) ==
    build_attrs(Widgets[w].cls, widget_attrs[w], Widgets[w].alt_require,
                extra_attrs, kwargs, default_field_attr_map, required_modules)

\* one call of w.build_attrs(extra_attrs, **kwargs)
BuildAttrsCall(w, extra_attrs, kwargs) ==
    \E r \in {BuildAttrsNow(w, extra_attrs, kwargs)} :
    /\ default_field_attr_map' = r.map
    /\ widget_attrs' = [widget_attrs EXCEPT ![w] = r.self_attrs]
    /\ required_modules' = r.modules
    /\ last' = [called |-> TRUE, widget |-> w, extra_attrs |-> extra_attrs,
                kwargs |-> kwargs, raised |-> r.raised, bag |-> r.bag,
                gathered |-> r.gathered, mixed |-> r.mixed, map |-> r.map,
                self_attrs |-> widget_attrs[w]]
    /\ UNCHANGED <<mixin_vars, mapper_vars, forms_vars>>

Next ==
    \E w \in DOMAIN Widgets, extra_attrs \in ExtraAttrsChoices, kwargs \in KwargsChoices :
        BuildAttrsCall(w, extra_attrs, kwargs)

Spec == Init /\ [][Next]_vars

-----------------------------------------------------------------------------
(* _mixin_attr called directly, each call on the attrs the one before      *)
(* returned, as the loop of build_attrs hands them on.                     *)

MixinClasses == {"NumberTextInput", "DateInput", "TimeInput", "DateInputAnim"}

MixinKeys ==
    {<<"required">>,
     <<"constraints", ".", "min">>,
     <<"constraints", ".", "max">>}

Midnight == [hms |-> "00:00:00", us |-> ""]
HalfPast == [hms |-> "12:30:00", us |-> "000123"]

MixinValues ==
    {PyInt(5),
     PyDateTime("2024-03-05", Midnight),
     PyDate("2024-03-05"),
     PyTime(HalfPast)}

\* the attrs the first call is given
MixinInitialAttrs ==
    {EmptyDict,
     Dict2("id", PyStr(<<"id_f">>), "constraints", Dict1("min", PyInt(3))),
     Dict2("required", None, "constraints", Dict1("max", None)),
     Dict1("constraints", PyStr(<<"{min:0}">>))}

InitMixin ==
    /\ default_field_attr_map = DefaultFieldAttrMap
    /\ widget_attrs = InitialAttrs
    /\ required_modules = <<>>
    /\ last = NoCall
    /\ mx_attrs \in MixinInitialAttrs
    /\ mx_last = NoCall
    /\ ff = NoCall
    /\ built = NoCall
    /\ row = NoCall

\* attrs = self._mixin_attr(attrs, key, value) on a widget of class cls
MixinAttrCall(cls, key, value) ==
    \E r \in {mixin_attr(cls, mx_attrs, key, value)} :
    /\ mx_last' = [called |-> TRUE, cls |-> cls, key |-> key, value |-> value,
                   attrs |-> mx_attrs, raised |-> (r = Raised)]
    /\ mx_attrs' = IF r = Raised THEN mx_attrs ELSE r
    /\ UNCHANGED <<mixer_vars, mapper_vars, forms_vars>>

NextMixin ==
    \E cls \in MixinClasses, key \in MixinKeys, value \in MixinValues :
        MixinAttrCall(cls, key, value)

SpecMixin == InitMixin /\ [][NextMixin]_vars

-----------------------------------------------------------------------------
(* The Field Mapper of models.py.                                          *)

\* the model field classes of django.db.models.fields that models.py names
\* or inherits rules for, each with its base class
FieldBase ==
    MapOf({
      <<"fields.AutoField", "fields.Field">>,
      <<"fields.BigIntegerField", "fields.IntegerField">>,
      <<"fields.BinaryField", "fields.Field">>,
      <<"fields.BooleanField", "fields.Field">>,
      <<"fields.CharField", "fields.Field">>,
      <<"fields.CommaSeparatedIntegerField", "fields.CharField">>,
      <<"fields.DateField", "fields.Field">>,
      <<"fields.DateTimeField", "fields.DateField">>,
      <<"fields.DecimalField", "fields.Field">>,
      <<"fields.EmailField", "fields.CharField">>,
      <<"fields.FilePathField", "fields.Field">>,
      <<"fields.FloatField", "fields.Field">>,
      <<"fields.IntegerField", "fields.Field">>,
      <<"fields.IPAddressField", "fields.Field">>,
      <<"fields.GenericIPAddressField", "fields.Field">>,
      <<"fields.NullBooleanField", "fields.Field">>,
      <<"fields.PositiveIntegerField", "fields.IntegerField">>,
      <<"fields.PositiveSmallIntegerField", "fields.IntegerField">>,
      <<"fields.SlugField", "fields.CharField">>,
      <<"fields.SmallIntegerField", "fields.IntegerField">>,
      <<"fields.TextField", "fields.Field">>,
      <<"fields.TimeField", "fields.Field">>,
      <<"fields.URLField", "fields.CharField">>,
      <<"fields.files.FileField", "fields.Field">>,
      <<"fields.files.ImageField", "fields.files.FileField">>,
      <<"fields.related.ForeignKey", "fields.Field">>,
      <<"fields.related.OneToOneField", "fields.related.ForeignKey">>,
      <<"fields.related.ManyToManyField", "fields.Field">>})

FieldTypes == DOMAIN FieldBase

\* issubclass(t, u)
RECURSIVE IsSubclass(_, _)
IsSubclass(t, u) ==
    \/ t = u
    \/ t \in DOMAIN FieldBase /\ IsSubclass(FieldBase[t], u)

\* a class object, as opposed to an instance of it
PyClass(name) == [kind |-> "class", name |-> name]
\* Select(attrs=attrs)
SelectWidget(attrs) == [kind |-> "widget", cls |-> "Select", attrs |-> attrs]

\* the map with CharField and DateField moved in front of their subclasses
MapBaseFirst ==
    << <<"fields.CharField", "CharField">>,
       <<"fields.DateField", "DateField">>,
       <<"fields.DateTimeField", "DateTimeField">>,
       <<"fields.EmailField", "EmailField">>,
       <<"fields.TextField", "CharField", "Textarea">>,
       <<"fields.IntegerField", "IntegerField">> >>

MODEL_TO_FORM_FIELD_MAP ==
    << <<"fields.CommaSeparatedIntegerField", "CharField">>,
       <<"fields.DateTimeField", "DateTimeField">>,
       <<"fields.DateField", "DateField">>,
       <<"fields.DecimalField", "DecimalField">>,
       <<"fields.EmailField", "EmailField">>,
       <<"fields.FilePathField", "FilePathField">>,
       <<"fields.FloatField", "FloatField">>,
       <<"fields.related.ForeignKey", "ModelChoiceField">>,
       <<"fields.files.ImageField", "ImageField">>,
       <<"fields.files.FileField", "FileField">>,
       <<"fields.GenericIPAddressField", "GenericIPAddressField">>,
       <<"fields.related.ManyToManyField", "ModelMultipleChoiceField">>,
       <<"fields.NullBooleanField", "CharField">>,
       <<"fields.BooleanField", "BooleanField">>,
       <<"fields.PositiveSmallIntegerField", "IntegerField">>,
       <<"fields.PositiveIntegerField", "IntegerField">>,
       <<"fields.SlugField", "SlugField">>,
       <<"fields.SmallIntegerField", "IntegerField">>,
       <<"fields.IntegerField", "IntegerField">>,
       <<"fields.TimeField", "TimeField">>,
       <<"fields.URLField", "URLField">>,
       <<"fields.TextField", "CharField", "Textarea">>,
       <<"fields.CharField", "CharField">> >>

\* isinstance replaced by a comparison of the exact type
IsInstanceExact(field, field_map) == field.type = field_map[1]

\* isinstance(field, field_map[0])
IsInstance(field, field_map) == IsSubclass(field.type, field_map[1])

\* the two branches in the other order: the rule's widget checked first
RuleDefaultsWidgetFirst(field, field_map) ==
    IF Len(field_map) = 3
    THEN Item("widget", PyClass(field_map[3]))
    ELSE IF field.choices # <<>>
    THEN Item("widget", SelectWidget(
            Dict1("extra_field_attrs",
                  Dict2("required", PyBool(~field.blank),
                        "help_text", PyStr(field.help_text)))))
    ELSE EmptyMap

\* the defaults formfield_function builds for the rule that matched
RuleDefaults(field, field_map) ==
    IF field.choices # <<>>
    THEN Item("widget", SelectWidget(
            Dict1("extra_field_attrs",
                  Dict2("required", PyBool(~field.blank),
                        "help_text", PyStr(field.help_text)))))
    ELSE IF Len(field_map) = 3
    THEN Item("widget", PyClass(field_map[3]))
    ELSE EmptyMap

\* the loop of formfield_function from rule k on: the rule that matched (0
\* when none did) and the keyword arguments field.formfield is called with
RECURSIVE ScanRules(_, _, _)
ScanRules(field, kwargs, k) ==
    IF k > Len(MODEL_TO_FORM_FIELD_MAP)
    THEN [rule |-> 0, formfield |-> kwargs]
    ELSE LET field_map == MODEL_TO_FORM_FIELD_MAP[k] IN
         IF IsInstance(field, field_map)
         THEN [rule |-> k,
               formfield |-> Merge(Item("form_class", PyClass(field_map[2])),
                                   Merge(kwargs, RuleDefaults(field, field_map)))]
         ELSE ScanRules(field, kwargs, k + 1)

formfield_function(field, kwargs) == ScanRules(field, kwargs, 1)

\* the model fields handed to the mapper
Fields ==
    [type : FieldTypes,
     choices : {<<>>, << <<"a", "A">> >>},
     blank : BOOLEAN,
     help_text : {<<>>, <<"pick one">>}]

\* the keyword arguments the form machinery passes on to the callback
CallbackKwargs ==
    {EmptyMap,
     Item("widget", PyClass("HiddenInput")),
     Item("label", PyStr(<<"Name">>)),
     MapOf({<<"widget", PyClass("HiddenInput")>>, <<"label", PyStr(<<"Name">>)>>})}

\* one call of formfield_function(field, **kwargs)
FormfieldFunctionCall(field, kwargs) ==
    \E r \in {formfield_function(field, kwargs)} :
    /\ ff' = [called |-> TRUE, field |-> field, kwargs |-> kwargs,
              rule |-> r.rule, formfield |-> r.formfield]
    /\ UNCHANGED <<mixer_vars, mixin_vars, forms_vars>>

NextMapper ==
    \E field \in Fields, kwargs \in CallbackKwargs : FormfieldFunctionCall(field, kwargs)

SpecMapper == Init /\ [][NextMapper]_vars

-----------------------------------------------------------------------------
(* The entry points of models.py: what each hands to the framework         *)
(* function it wraps, and the callback the framework then builds the form  *)
(* fields of the model with.                                               *)

\* a function object
PyFunction(name) == [kind |-> "function", name |-> name]

TheFormfieldFunction == PyFunction("formfield_function")
DojangoModelForm == PyClass("dojango.forms.ModelForm")
DjangoModelForm == PyClass("django.forms.ModelForm")
DojangoBaseModelFormSet == PyClass("dojango.forms.BaseModelFormSet")
DojangoBaseInlineFormSet == PyClass("dojango.forms.BaseInlineFormSet")

\* kwargs.get(key, default)
GetDefault(kwargs, key, default) ==
    IF key \in DOMAIN kwargs THEN kwargs[key] ELSE default

\* the factory setting the callback as modelform_factory does, whatever the
\* caller passed
modelformset_factory_own_callback(kwargs) ==
    Merge(MapOf({<<"formfield_callback", TheFormfieldFunction>>,
                 <<"formset", GetDefault(kwargs, "formset", DojangoBaseModelFormSet)>>}),
          kwargs)

\* fields_for_model(*args, **kwargs): the kwargs models.fields_for_model gets
fields_for_model(kwargs) ==
    Merge(Item("formfield_callback", TheFormfieldFunction), kwargs)

\* ModelFormMetaclass.__new__(cls, name, bases, attrs): the attrs the base
\* metaclass gets
ModelFormMetaclass(attrs) ==
    Merge(Item("formfield_callback", TheFormfieldFunction), attrs)

\* modelform_factory(*args, **kwargs): the kwargs models.modelform_factory gets
modelform_factory(kwargs) ==
    Merge(MapOf({<<"formfield_callback", TheFormfieldFunction>>,
                 <<"form", DojangoModelForm>>}),
          kwargs)

\* modelformset_factory(*args, **kwargs): the kwargs
\* models.modelformset_factory gets
modelformset_factory(kwargs) ==
    Merge(MapOf({<<"formfield_callback",
                   GetDefault(kwargs, "formfield_callback", TheFormfieldFunction)>>,
                 <<"formset", GetDefault(kwargs, "formset", DojangoBaseModelFormSet)>>}),
          kwargs)

\* inlineformset_factory(*args, **kwargs): the kwargs
\* models.inlineformset_factory gets
inlineformset_factory(kwargs) ==
    Merge(MapOf({<<"formfield_callback",
                   GetDefault(kwargs, "formfield_callback", TheFormfieldFunction)>>,
                 <<"formset", GetDefault(kwargs, "formset", DojangoBaseInlineFormSet)>>}),
          kwargs)

EntryPoints ==
    {"ModelForm", "fields_for_model", "modelform_factory",
     "modelformset_factory", "inlineformset_factory"}

\* what the entry point hands on
Passed(entry, kwargs) ==
    CASE entry = "ModelForm" -> ModelFormMetaclass(kwargs)
      [] entry = "fields_for_model" -> fields_for_model(kwargs)
      [] entry = "modelform_factory" -> modelform_factory(kwargs)
      [] entry = "modelformset_factory" -> modelformset_factory(kwargs)
      [] entry = "inlineformset_factory" -> inlineformset_factory(kwargs)

\* the framework's factories make the form class with the metaclass of the
\* form they are given, type(form)(name, (form,), {'formfield_callback': cb}),
\* and that metaclass is ModelFormMetaclass for a dojango ModelForm
FormClassCallback(form, formfield_callback) ==
    IF form = DojangoModelForm
    THEN ModelFormMetaclass(Item("formfield_callback", formfield_callback)).formfield_callback
    ELSE formfield_callback

\* the callback the framework calls for every model field of the form
Callback(entry, passed) ==
    IF entry \in {"ModelForm", "fields_for_model"}
    THEN passed.formfield_callback
    ELSE FormClassCallback(GetDefault(passed, "form", DjangoModelForm),
                           passed.formfield_callback)

\* the keyword arguments field.formfield is called with when the framework
\* builds the form field of a model field with the callback
FormField(callback, field) ==
    IF callback = TheFormfieldFunction THEN formfield_function(field, EmptyMap).formfield
    ELSE IF callback = None THEN EmptyMap
    ELSE Item("form_class", PyClass("CustomField"))

\* what a caller can pass for the callback, the form and the formset
CallerCallbacks == {None, PyFunction("custom_callback")}
CallerForms == {DjangoModelForm, DojangoModelForm}
CallerFormsets == {PyClass("django.forms.BaseModelFormSet")}

\* every mapping of some of the keys to one of their values
Choices(keys, values) ==
    UNION {[ks -> UNION {values[k] : k \in ks}] : ks \in SUBSET keys}

CallerKwargs(entry) ==
    LET values == MapOf({<<"formfield_callback", CallerCallbacks>>,
                         <<"form", CallerForms>>,
                         <<"formset", CallerFormsets>>})
        keys == CASE entry \in {"ModelForm", "fields_for_model"} -> {"formfield_callback"}
                  [] entry = "modelform_factory" -> {"formfield_callback", "form"}
                  [] OTHER -> {"formfield_callback", "form", "formset"}
    IN  {kw \in Choices(keys, values) : \A k \in DOMAIN kw : kw[k] \in values[k]}

\* the model fields the entry points build form fields for
ModelFields ==
    {f \in Fields : /\ f.type \in {"fields.CharField", "fields.TextField",
                                   "fields.related.ForeignKey", "fields.AutoField"}
                    /\ f.help_text = <<>>}

\* one call of an entry point, and one model field the framework builds the
\* form field of while it makes the form class
EntryPointCall(entry, kwargs, field) ==
    \E passed \in {Passed(entry, kwargs)} :
    \E callback \in {Callback(entry, passed)} :
    /\ built' = [called |-> TRUE, entry |-> entry, kwargs |-> kwargs,
                 passed |-> passed, field |-> field, callback |-> callback,
                 formfield |-> FormField(callback, field)]
    /\ UNCHANGED <<mixer_vars, mixin_vars, mapper_vars, row>>

NextEntry ==
    \E entry \in EntryPoints, field \in ModelFields :
        \E kwargs \in CallerKwargs(entry) : EntryPointCall(entry, kwargs, field)

SpecEntry == Init /\ [][NextEntry]_vars

-----------------------------------------------------------------------------
(* The add_fields hooks of the formsets.  form.fields is the framework's   *)
(* ordered dictionary: the sequence of its <<name, field>> entries.        *)

\* a form field instance: its class and the arguments it was made with
NewField(cls, kwargs) == [kind |-> "formfield", cls |-> cls, kwargs |-> kwargs]

\* name in form.fields
HasField(fields, name) == \E i \in DOMAIN fields : fields[i].name = name

\* form.fields.get(name)
GetField(fields, name) ==
    IF HasField(fields, name)
    THEN fields[CHOOSE i \in DOMAIN fields : fields[i].name = name].field
    ELSE None

\* form.fields[name] = field: a name the dictionary holds keeps its place,
\* a new name goes to the end
SetField(fields, name, field) ==
    IF HasField(fields, name)
    THEN [i \in DOMAIN fields |->
            IF fields[i].name = name THEN [name |-> name, field |-> field]
            ELSE fields[i]]
    ELSE Append(fields, [name |-> name, field |-> field])

\* the primary keys of the models: an automatic id, a character key the form
\* edits, a one-to-one key to another model, and a parent link
PrimaryKeys ==
    MapOf({
      <<"id", [name |-> "id", cls |-> "fields.AutoField", editable |-> TRUE,
               auto_created |-> TRUE, rel |-> None]>>,
      <<"slug", [name |-> "slug", cls |-> "fields.SlugField", editable |-> TRUE,
                 auto_created |-> FALSE, rel |-> None]>>,
      <<"owner", [name |-> "owner", cls |-> "fields.related.OneToOneField",
                  editable |-> TRUE, auto_created |-> FALSE,
                  rel |-> [parent_link |-> FALSE, to_pk |-> "slug"]]>>,
      <<"place_ptr", [name |-> "place_ptr", cls |-> "fields.related.OneToOneField",
                      editable |-> TRUE, auto_created |-> FALSE,
                      rel |-> [parent_link |-> TRUE, to_pk |-> "id"]]>>})

\* pk_is_not_editable(pk) of BaseModelFormSet.add_fields
RECURSIVE pk_is_not_editable(_)
pk_is_not_editable(pk) ==
    \/ ~pk.editable
    \/ pk.auto_created
    \/ IsSubclass(pk.cls, "fields.AutoField")
    \/ /\ pk.rel # None
       /\ pk.rel.parent_link
       /\ pk_is_not_editable(PrimaryKeys[pk.rel.to_pk])

\* the rows the queryset of the formset holds
QuerysetLen == 1

\* the pk_value BaseModelFormSet.add_fields computes
PkValue(form, index) ==
    IF form.is_bound THEN form.instance_pk
    ELSE IF index # None /\ index.n < QuerysetLen THEN PyInt(100 + index.n)
    ELSE None

\* the queryset the hidden field chooses from
PkQueryset(self) ==
    IF \/ IsSubclass(self.pk.cls, "fields.related.OneToOneField")
       \/ IsSubclass(self.pk.cls, "fields.related.ForeignKey")
    THEN [kind |-> "queryset", of |-> "pk.rel.to"]
    ELSE [kind |-> "queryset", of |-> "self.model"]

\* ModelChoiceField(qs, initial=pk_value, required=False, widget=HiddenInput)
HiddenPkField(self, form, index) ==
    NewField("ModelChoiceField",
             MapOf({<<"queryset", PkQueryset(self)>>,
                    <<"initial", PkValue(form, index)>>,
                    <<"required", PyBool(FALSE)>>,
                    <<"widget", PyClass("HiddenInput")>>}))

\* BaseFormSet.add_fields(self, form, index): the ordering field and the
\* deletion field, for a formset that can order and can delete
BaseFormSet_add_fields(self, fields, index) ==
    LET ordered ==
            IF self.can_order
            THEN SetField(fields, "ORDER",
                          NewField("IntegerField", Item("required", PyBool(FALSE))))
            ELSE fields
    IN  IF self.can_delete
        THEN SetField(ordered, "DELETE",
                      NewField("BooleanField", Item("required", PyBool(FALSE))))
        ELSE ordered

\* add_fields with the base formset's fields added first
BaseModelFormSet_add_fields_base_first(self, form, index) ==
    LET based == BaseFormSet_add_fields(self, form.fields, index)
    IN  IF pk_is_not_editable(self.pk) \/ ~HasField(based, self.pk.name)
        THEN SetField(based, self.pk.name, HiddenPkField(self, form, index))
        ELSE based

\* BaseModelFormSet.add_fields(self, form, index): form.fields afterwards
BaseModelFormSet_add_fields(self, form, index) ==
    LET keyed ==
            IF pk_is_not_editable(self.pk) \/ ~HasField(form.fields, self.pk.name)
            THEN SetField(form.fields, self.pk.name, HiddenPkField(self, form, index))
            ELSE form.fields
    IN  BaseFormSet_add_fields(self, keyed, index)

\* capfirst(x)
capfirst(x) == IF x = "author" THEN "Author" ELSE x

\* getattr(form.fields.get(self.fk.name), 'label', capfirst(self.fk.verbose_name))
FkLabel(self, fields) ==
    LET f == GetField(fields, self.fk.name) IN
    IF f = None THEN PyStr(<<capfirst(self.fk.verbose_name)>>)
    ELSE IF "label" \in DOMAIN f.kwargs THEN f.kwargs.label
    ELSE None

\* BaseInlineFormSet.add_fields(self, form, index): form.fields afterwards
BaseInlineFormSet_add_fields(self, form, index) ==
    LET fields == BaseModelFormSet_add_fields(self, form, index) IN
    IF self.pk.name = self.fk.name
    THEN SetField(fields, self.pk.name,
                  NewField("InlineForeignKeyField", Item("pk_field", PyBool(TRUE))))
    ELSE LET label == Item("label", FkLabel(self, fields))
             kwargs == IF self.fk.rel_field_name # self.fk.rel_to_pk_name
                       THEN Merge(label, Item("to_field", PyStr(<<self.fk.rel_field_name>>)))
                       ELSE label
         IN  SetField(fields, self.fk.name, NewField("InlineForeignKeyField", kwargs))

\* the formsets: the primary key of their model and, for an inline formset,
\* the foreign key to the parent
ForeignKeys ==
    {[name |-> "author", verbose_name |-> "author", rel_field_name |-> "id",
      rel_to_pk_name |-> "id"],
     [name |-> "author", verbose_name |-> "author", rel_field_name |-> "code",
      rel_to_pk_name |-> "id"],
     [name |-> "owner", verbose_name |-> "owner", rel_field_name |-> "slug",
      rel_to_pk_name |-> "slug"]}

NoForeignKey == [name |-> "", verbose_name |-> "", rel_field_name |-> "",
                 rel_to_pk_name |-> ""]

ModelFormSets ==
    [can_order : BOOLEAN, can_delete : BOOLEAN,
     pk : {PrimaryKeys[k] : k \in DOMAIN PrimaryKeys}, fk : {NoForeignKey}]

\* the foreign key named as the primary key is that primary key
InlineFormSets ==
    {self \in [can_order : BOOLEAN, can_delete : BOOLEAN,
               pk : {PrimaryKeys[k] : k \in DOMAIN PrimaryKeys}, fk : ForeignKeys] :
        self.fk.name \in DOMAIN PrimaryKeys => self.pk.name = self.fk.name}

\* form.fields of a row before add_fields: the fields of the form class
Entry(name, cls, kwargs) == [name |-> name, field |-> NewField(cls, kwargs)]

BaseFields ==
    LET title == Entry("title", "CharField", EmptyMap) IN
    {<<title>>,
     <<Entry("slug", "SlugField", EmptyMap), title>>,
     <<Entry("id", "IntegerField", EmptyMap), title>>,
     <<Entry("author", "ModelChoiceField", Item("label", PyStr(<<"Writer">>))), title>>,
     <<Entry("owner", "ModelChoiceField", EmptyMap), title>>}

Forms == [fields : BaseFields, is_bound : BOOLEAN, instance_pk : {PyInt(7)}]

Indexes == {None} \cup {PyInt(i) : i \in 0..QuerysetLen}

\* a bound form is a row of the queryset
Rows ==
    {r \in [form : Forms, index : Indexes] : r.form.is_bound => r.index = PyInt(0)}

\* BaseModelFormSet.add_fields(form, index) on one row
ModelAddFieldsCall(self, form, index) ==
    /\ row' = [called |-> TRUE, cls |-> "BaseModelFormSet", self |-> self,
               form |-> form, index |-> index,
               fields |-> BaseModelFormSet_add_fields(self, form, index)]
    /\ UNCHANGED <<mixer_vars, mixin_vars, mapper_vars, built>>

\* BaseInlineFormSet.add_fields(form, index) on one row
InlineAddFieldsCall(self, form, index) ==
    /\ row' = [called |-> TRUE, cls |-> "BaseInlineFormSet", self |-> self,
               form |-> form, index |-> index,
               fields |-> BaseInlineFormSet_add_fields(self, form, index)]
    /\ UNCHANGED <<mixer_vars, mixin_vars, mapper_vars, built>>

NextFormSet ==
    \E r \in Rows :
        \/ \E self \in ModelFormSets : ModelAddFieldsCall(self, r.form, r.index)
        \/ \E self \in InlineFormSets : InlineAddFieldsCall(self, r.form, r.index)

SpecFormSet == Init /\ [][NextFormSet]_vars

-----------------------------------------------------------------------------
(* Properties of the Field Mapper, under SpecMapper.                       *)

Rules == 1..Len(MODEL_TO_FORM_FIELD_MAP)

\* the rules whose model field class the field's class is or inherits from
MatchingRules(field) ==
    {k \in Rules : IsSubclass(field.type, MODEL_TO_FORM_FIELD_MAP[k][1])}

\* C1: the field is built with the form field class of the first rule, top
\* down, whose model field class the field is an instance of (a subclass
\* without a rule of its own takes its base class's rule); when no rule
\* matches, field.formfield is called with exactly the caller's kwargs, with no
\* form_class and no widget added.
C1_FirstMatchingRule ==
    ff.called =>
        LET m == MatchingRules(ff.field) IN
        IF m = {}
        THEN ff.rule = 0 /\ ff.formfield = ff.kwargs
        ELSE /\ ff.rule \in m
             /\ \A j \in m : ff.rule <= j
             /\ "form_class" \in DOMAIN ff.formfield
             /\ ff.formfield["form_class"] =
                    PyClass(MODEL_TO_FORM_FIELD_MAP[ff.rule][2])

\* a BigIntegerField, which has no rule of its own, took the IntegerField rule
C1_Witness ==
    /\ ff.called
    /\ ff.field.type = "fields.BigIntegerField"
    /\ ff.rule # 0
    /\ MODEL_TO_FORM_FIELD_MAP[ff.rule][1] = "fields.IntegerField"
    /\ ff.formfield["form_class"] = PyClass("IntegerField")

\* the Select widget formfield_function builds for a field with choices
ChoicesSelect(field) ==
    SelectWidget(
        Dict1("extra_field_attrs",
              Dict2("required", PyBool(~field.blank),
                    "help_text", PyStr(field.help_text))))

\* C2 as claimed: every field with choices is handed the Select widget with
\* extra_field_attrs {required, help_text}, whichever rule matches or none, and
\* whatever kwargs the caller passes.
C2_ChoicesAlwaysSelect ==
    (ff.called /\ ff.field.choices # <<>>) =>
        /\ "widget" \in DOMAIN ff.formfield
        /\ ff.formfield["widget"] = ChoicesSelect(ff.field)

\* C2 as amended: a field with choices that matches a rule is handed the
\* Select widget with extra_field_attrs of exactly required = not blank and
\* help_text, in place of the rule's own widget, unless the caller's kwargs
\* hold a widget, which is then the one passed on; a field that matches no rule
\* is built by the framework default from the caller's kwargs alone.
C2_ChoicesSelectByDefault ==
    (ff.called /\ ff.field.choices # <<>>) =>
        IF ff.rule = 0 THEN ff.formfield = ff.kwargs
        ELSE /\ "widget" \in DOMAIN ff.formfield
             /\ ff.formfield["widget"] =
                    IF "widget" \in DOMAIN ff.kwargs
                    THEN ff.kwargs["widget"]
                    ELSE ChoicesSelect(ff.field)
             /\ DOMAIN ChoicesSelect(ff.field).attrs.d["extra_field_attrs"].d =
                    {"required", "help_text"}

\* a TextField with choices and no widget from the caller: the Select won
\* over the Textarea of the rule
C2_Witness ==
    /\ ff.called
    /\ ff.field.type = "fields.TextField"
    /\ ff.field.choices # <<>>
    /\ ff.field.blank
    /\ "widget" \notin DOMAIN ff.kwargs
    /\ ff.formfield["widget"].cls = "Select"
    /\ ff.formfield["widget"].attrs.d["extra_field_attrs"].d["required"] = PyBool(FALSE)

\* C10: two rules whose model field classes are related by subclassing stand
\* subclass first, so every rule is the first match of its own class and a
\* field whose class has a rule of its own resolves to that rule, never to the
\* rule of a base class.
C10_SubclassRuleFirst ==
    /\ \A i \in Rules : \A j \in Rules :
          (i # j /\ IsSubclass(MODEL_TO_FORM_FIELD_MAP[i][1],
                              MODEL_TO_FORM_FIELD_MAP[j][1])) => i < j
    /\ ff.called =>
          \A k \in Rules :
             MODEL_TO_FORM_FIELD_MAP[k][1] = ff.field.type =>
                /\ ff.rule = k
                /\ ff.formfield["form_class"] =
                       PyClass(MODEL_TO_FORM_FIELD_MAP[k][2])

\* a DateTimeField resolved to its own rule, in front of the DateField rule
C10_Witness ==
    /\ ff.called
    /\ ff.field.type = "fields.DateTimeField"
    /\ ff.formfield["form_class"] = PyClass("DateTimeField")
    /\ \E j \in Rules : /\ MODEL_TO_FORM_FIELD_MAP[j][1] = "fields.DateField"
                        /\ ff.rule < j

-----------------------------------------------------------------------------
(* Properties of build_attrs, under Spec.                                  *)

Absent == [kind |-> "absent"]

\* what the bag holds at a path of segments, Absent when nothing is there
RECURSIVE LeafAt(_, _)
LeafAt(v, path) ==
    IF ~IsDict(v) THEN Absent
    ELSE IF ~HasKey(v, Head(path)) THEN Absent
    ELSE IF Len(path) = 1 THEN v.d[Head(path)]
    ELSE LeafAt(v.d[Head(path)], Tail(path))

\* the concerns a widget class allow-lists
Concerns(cls) == {valid_extra_attrs(cls)[k] : k \in 1..Len(valid_extra_attrs(cls))}

\* the path a class declares for a concern: its own, else the default
OwnPath(cls, c) ==
    IF c \in DOMAIN field_attr_map(cls) THEN field_attr_map(cls)[c]
    ELSE DefaultFieldAttrMap[c]

\* C3: in every build_attrs call, the path used for each allow-listed concern
\* is the one the widget's own class declares, else the original default,
\* whatever calls came before on other widgets.
C3_PathOfOwnClass ==
    last.called =>
        \A c \in Concerns(Widgets[last.widget].cls) :
            /\ c \in DOMAIN last.map
            /\ last.map[c] = OwnPath(Widgets[last.widget].cls, c)

\* the bag w.build_attrs(extra_attrs, **kwargs) returns in the current state
BagOf(w, extra_attrs, kwargs) == BuildAttrsNow(w, extra_attrs, kwargs).bag

LastFieldAttrs == Get(last.gathered, "extra_field_attrs")

\* C5 as claimed: an attribute present at the leaf of a concern's path before
\* the mixing (from self.attrs, kwargs or extra_attrs) is still there after it.
C5_PresentLeafKept ==
    last.called =>
        \A c \in Concerns(Widgets[last.widget].cls) \cap DOMAIN last.map :
            LET path == Split(last.map[c])
                before == LeafAt(last.gathered, path)
            IN  before # Absent => LeafAt(last.mixed, path) = before

\* C5 as amended: a leaf that holds anything but None before the mixing holds
\* the same after it (a leaf holding None counts as free); and a free leaf of
\* a concern that has a value takes that value, as _mixin_attr stores it.
C5_OccupiedLeafKept ==
    last.called =>
        \A c \in Concerns(Widgets[last.widget].cls) \cap DOMAIN last.map :
            LET path == Split(last.map[c])
                before == LeafAt(last.gathered, path)
                after == LeafAt(last.mixed, path)
            IN  /\ before \notin {Absent, None} => after = before
                /\ after # before => before \in {Absent, None}
                /\ (/\ before \in {Absent, None}
                    /\ ~last.raised
                    /\ IsDict(LastFieldAttrs)
                    /\ Get(LastFieldAttrs, c) # None)
                   => after = NormalizeValue(Widgets[last.widget].cls,
                                             Get(LastFieldAttrs, c))

\* required=False from the kwargs stayed at the leaf although the field
\* attributes of the number widget say required=True
C5_Witness ==
    /\ last.called
    /\ last.widget = "number"
    /\ ~last.raised
    /\ Get(LastFieldAttrs, "required") = PyBool(TRUE)
    /\ LeafAt(last.gathered, <<"required">>) = PyBool(FALSE)
    /\ LeafAt(last.mixed, <<"required">>) = PyBool(FALSE)
    /\ LeafAt(last.mixed, <<"constraints", "min">>) = PyInt(1)

\* a native bool at any depth of a value
RECURSIVE HasBool(_)
HasBool(v) ==
    \/ v.kind = "bool"
    \/ IsDict(v) /\ \E k \in DOMAIN v.d : HasBool(v.d[k])

\* C7: the bag build_attrs returns holds no native bool at any depth.
C7_NoNativeBool ==
    (last.called /\ ~last.raised) => ~HasBool(last.bag)

\* C8: no build_attrs call raises.
C8_NeverRaises ==
    last.called => ~last.raised

-----------------------------------------------------------------------------
(* Properties of _mixin_attr, under SpecMixin.                             *)

\* after is before with value merged in at path: every other key of every
\* mapping on the way is as it was, a mapping stands at every segment before
\* the last, and the leaf holds what it held, or stored when it was free
RECURSIVE MergedAt(_, _, _, _)
MergedAt(before, after, path, stored) ==
    LET h == Head(path) IN
    /\ IsDict(before)
    /\ IsDict(after)
    /\ DOMAIN after.d = (DOMAIN before.d) \cup {h}
    /\ \A k \in (DOMAIN before.d) \ {h} : after.d[k] = before.d[k]
    /\ IF Len(path) = 1
       THEN after.d[h] = IF Get(before, h) = None THEN stored ELSE before.d[h]
       ELSE MergedAt(IF HasKey(before, h) THEN before.d[h] ELSE EmptyDict,
                     after.d[h], Tail(path), stored)

\* C6: _mixin_attr splits the key on the dots, makes an empty mapping for
\* every absent segment before the last and stores the value at the last;
\* every other key of the bag, at every level, is left as it was (min_value=5
\* at constraints.min gives {constraints: {min: 5}}, and constraints.max is
\* merged into the same mapping).
C6_DottedPathMerge ==
    (mx_last.called /\ ~mx_last.raised) =>
        /\ MergedAt(mx_last.attrs, mx_attrs, Split(mx_last.key),
                    NormalizeValue(mx_last.cls, mx_last.value))
        /\ (/\ mx_last.attrs = EmptyDict
            /\ mx_last.key = <<"constraints", ".", "min">>
            /\ mx_last.value = PyInt(5))
           => mx_attrs = Dict1("constraints", Dict1("min", PyInt(5)))

\* constraints.max was merged into the mapping that held constraints.min = 5
C6_Witness ==
    /\ mx_last.called
    /\ ~mx_last.raised
    /\ mx_last.key = <<"constraints", ".", "max">>
    /\ mx_last.attrs = Dict1("constraints", Dict1("min", PyInt(5)))
    /\ mx_attrs = Dict1("constraints", Dict2("min", PyInt(5), "max", PyInt(5)))

\* the string a date or time value is to be stored as
StoredAs(cls, value) ==
    CASE value.kind = "datetime" /\ cls \in {"DateInput", "DateInputAnim"} ->
            PyStr(<<value.date>>)
      [] value.kind = "datetime" /\ cls = "TimeInput" ->
            PyStr(<<"T", value.time.hms>>)
      [] value.kind = "datetime" /\ cls \notin {"DateInput", "DateInputAnim", "TimeInput"} ->
            PyStr(<<value.date, "T">> \o TimeIso(value.time))
      [] value.kind = "date" -> PyStr(<<value.date>>)
      [] value.kind = "time" -> PyStr(<<"T">> \o TimeIso(value.time))
      [] OTHER -> value

\* C9: a value stored at a free leaf is, for a datetime, the date on a
\* DateInput, T and the time of day on a TimeInput, and date T time on any
\* other widget; for a date, the date; for a time, T and the time; each value
\* is converted once.
C9_ValueNormalization ==
    (/\ mx_last.called
     /\ ~mx_last.raised
     /\ LeafAt(mx_last.attrs, Split(mx_last.key)) \in {Absent, None})
    => /\ LeafAt(mx_attrs, Split(mx_last.key)) = StoredAs(mx_last.cls, mx_last.value)
       /\ (mx_last.value = PyDateTime("2024-03-05", Midnight) /\ mx_last.cls = "DateInput")
          => LeafAt(mx_attrs, Split(mx_last.key)) = PyStr(<<"2024-03-05">>)
       /\ (mx_last.value = PyDateTime("2024-03-05", Midnight) /\ mx_last.cls = "TimeInput")
          => LeafAt(mx_attrs, Split(mx_last.key)) = PyStr(<<"T", "00:00:00">>)

\* a datetime stored through a TimeInput at a free constraints.min
C9_Witness ==
    /\ mx_last.called
    /\ ~mx_last.raised
    /\ mx_last.cls = "TimeInput"
    /\ mx_last.value.kind = "datetime"
    /\ mx_last.key = <<"constraints", ".", "min">>
    /\ LeafAt(mx_last.attrs, <<"constraints", "min">>) = Absent
    /\ LeafAt(mx_attrs, <<"constraints", "min">>) = PyStr(<<"T", "00:00:00">>)

-----------------------------------------------------------------------------
(* Properties of the entry points, under SpecEntry.                        *)

\* the form field of the model field was built by formfield_function
Routed ==
    /\ built.callback = TheFormfieldFunction
    /\ built.formfield = formfield_function(built.field, EmptyMap).formfield

-----------------------------------------------------------------------------
(* Properties of the add_fields hooks, under SpecFormSet.                  *)

Names(fields) == [i \in DOMAIN fields |-> fields[i].name]

\* a key field the hooks inject: the hidden ModelChoiceField or the
\* InlineForeignKeyField
IsHiddenKey(field) ==
    \/ field.cls = "InlineForeignKeyField"
    \/ /\ field.cls = "ModelChoiceField"
       /\ "widget" \in DOMAIN field.kwargs
       /\ field.kwargs.widget = PyClass("HiddenInput")

\* C12 as claimed: in every row the hooks leave, the hidden key fields stand
\* after all other fields, the ordering and deletion fields of the base
\* formset and the case of a name already in form.fields included.
C12_HiddenKeyLast ==
    row.called =>
        \A i, j \in DOMAIN row.fields :
            (IsHiddenKey(row.fields[i].field) /\ ~IsHiddenKey(row.fields[j].field))
                => j < i

\* names with those of cand it does not hold added at the end, in order
RECURSIVE AppendNew(_, _)
AppendNew(names, cand) ==
    IF cand = <<>> THEN names
    ELSE AppendNew(IF \E i \in DOMAIN names : names[i] = Head(cand)
                   THEN names ELSE Append(names, Head(cand)),
                   Tail(cand))

\* the primary key field is injected
PkInjected ==
    \/ pk_is_not_editable(row.self.pk)
    \/ \A i \in DOMAIN row.form.fields : row.form.fields[i].name # row.self.pk.name

\* C12: every field the form had keeps its position, also when a key field
\* of the same name replaces it; the names that are new are added at the end
\* in the order hidden primary key, ORDER, DELETE and, for an inline formset,
\* the foreign key: the hidden primary key stands before the ordering and
\* deletion fields and the inline foreign key after them.  The entries under
\* the key names are the injected fields, every other entry is as it was.
C12_KeyOrder ==
    row.called =>
        LET before == row.form.fields
            after == row.fields
            self == row.self
            inline == row.cls = "BaseInlineFormSet"
            cand == (IF PkInjected THEN <<self.pk.name>> ELSE <<>>)
                    \o (IF self.can_order THEN <<"ORDER">> ELSE <<>>)
                    \o (IF self.can_delete THEN <<"DELETE">> ELSE <<>>)
                    \o (IF inline THEN <<self.fk.name>> ELSE <<>>)
            keys == {cand[i] : i \in DOMAIN cand}
        IN  /\ Names(after) = AppendNew(Names(before), cand)
            /\ \A i \in DOMAIN before :
                   before[i].name \notin keys => after[i] = before[i]
            /\ \A i \in DOMAIN after :
                   /\ (after[i].name = self.pk.name /\ PkInjected)
                          => IsHiddenKey(after[i].field)
                   /\ (inline /\ after[i].name = self.fk.name)
                          => after[i].field.cls = "InlineForeignKeyField"

\* an inline formset that can delete, on a row whose form holds neither key:
\* the hidden primary key, then DELETE, then the foreign key
C12_Witness ==
    /\ row.called
    /\ row.cls = "BaseInlineFormSet"
    /\ Names(row.form.fields) = <<"title">>
    /\ Names(row.fields) = <<"title", "id", "DELETE", "author">>
    /\ IsHiddenKey(row.fields[2].field)
    /\ IsHiddenKey(row.fields[4].field)

-----------------------------------------------------------------------------
(* The frame of build_attrs, under Spec.                                   *)

\* C13: a build_attrs call leaves the widget's own stored attrs as they were
\* at every level (top-level keys, nested mappings such as constraints, the
\* stored extra_field_attrs), and the bag it returns never holds the key
\* extra_field_attrs, an empty extra_field_attrs mapping included.
C13_FrameOfBuildAttrs ==
    last.called =>
        /\ widget_attrs[last.widget] = last.self_attrs
        /\ ~last.raised => ~HasKey(last.bag, "extra_field_attrs")

====
